---- MODULE Spec2Model ----
(***************************************************************************)
(* A model of pyopenapi3's builders (src/src/pyopenapi3/builders.py) and   *)
(* the pydantic validators they run (src/src/pyopenapi3/schemas.py).       *)
(*                                                                         *)
(* Python strings are sequences of lexemes: the characters "{", "}" and    *)
(* ":" are lexemes of their own, every other lexeme is a run of ordinary   *)
(* characters.  Status keys are sequences of single characters.  An        *)
(* optional value is <<>> (None) or <<x>>.  A dict is a sequence of        *)
(* <<key, value>> pairs with distinct keys, in insertion order.            *)
(***************************************************************************)
EXTENDS Integers, Sequences, FiniteSets, TLC

VARIABLES
    info_build,         \* InfoBuilder._build
    server_builds,      \* ServerBuilder._builds
    paths_build,        \* PathsBuilder.build
    op_attrs,           \* OperationBuilder._attrs, by method function
    parameter_builds,   \* ComponentBuilder._parameter_builds
    comp_build,         \* ComponentBuilder._build
    doc,                \* OpenApiBuilder._build
    allowed_types,      \* the module-level _allowed_types
    bus_parameters,     \* BuilderBus.parameters, by method function
    pending,            \* the methods of the class body being defined
    nextFn,             \* the next method function object
    last,               \* the last call made and its outcome
    declared_servers,   \* the server declarations that returned, in order
    declared_params,    \* the parameter components declared, with their form
    first_doc,          \* what the first build that returned has returned
    assemblies,         \* how often build has assembled a document
    method_params,      \* PathBuilder._method_params (builder.py)
    method_defn,        \* the HTTP methods of the class body: has a method schema?
    path_builds,        \* PathBuilder.builds (builder.py)
    comp_builds,        \* ComponentBuilder._builds (src/builder.py)
    registered,         \* how often each component class was decorated
    compiled,           \* how often each component's definition was compiled
    fields_used,        \* ComponentBuilder._fields_used
    schema_builds,      \* ComponentBuilder._schema_builds
    bus_schema_fields,  \* BuilderBus.schema_fields, by field function
    class_fields,       \* the fields declared in the class body being defined
    response_builds,    \* ComponentBuilder._response_builds
    request_bodies_builds,  \* ComponentBuilder._request_bodies_builds
    builder_info,       \* InfoObjectBuilder.builds (builder.py)
    builder_servers     \* ServerBuilder._builds (builder.py)

sessionVars == <<info_build, server_builds, paths_build, op_attrs,
                 parameter_builds, comp_build, doc>>
globalVars == <<allowed_types, bus_parameters>>
classVars == <<pending, nextFn>>
ghostVars == <<declared_servers, declared_params, first_doc, assemblies>>

\* the builders of builder.py
frontVars == <<builder_info, builder_servers>>
builderVars == <<method_params, method_defn, path_builds, comp_builds,
                 registered, compiled, frontVars>>
\* the schema, response and request-body components of ComponentBuilder
schemaVars == <<fields_used, schema_builds, bus_schema_fields, class_fields,
                response_builds, request_bodies_builds>>

vars == <<sessionVars, globalVars, classVars, last, ghostVars, builderVars,
          schemaVars>>

(***************************************************************************)
(* Bounds of the model.                                                    *)
(***************************************************************************)
MaxServers == 2
MaxFn == 2
MaxParams == 2
MaxPaths == 2
MaxTokens == 2

(***************************************************************************)
(* Helpers on sequences and dicts.                                         *)
(***************************************************************************)
None == <<>>
Some(x) == <<x>>

Range(s) == {s[i] : i \in DOMAIN s}

RECURSIVE IndexOf(_, _, _)
\* the first index >= i at which lexeme c occurs in s, 0 if none
IndexOf(s, c, i) ==
    IF i > Len(s) THEN 0
    ELSE IF s[i] = c THEN i
    ELSE IndexOf(s, c, i + 1)

DictKeys(d) == {d[i][1] : i \in DOMAIN d}

DictGet(d, k) == LET i == CHOOSE j \in DOMAIN d : d[j][1] = k IN d[i][2]

\* d[k] = v of a Python dict: an existing key keeps its place
DictSet(d, k, v) ==
    IF k \in DictKeys(d)
    THEN [i \in DOMAIN d |-> IF d[i][1] = k THEN <<k, v>> ELSE d[i]]
    ELSE Append(d, <<k, v>>)

(***************************************************************************)
(* string.Formatter().parse, as the code calls it: one tuple per           *)
(* replacement field, holding the literal text before it, the field name   *)
(* and the format spec; a trailing run of literal text gives a last tuple  *)
(* whose field name and format spec are None.                              *)
(***************************************************************************)
NoField == <<"<None>">>

RECURSIVE FormatterParseFrom(_, _, _)
FormatterParseFrom(s, i, lit) ==
    IF i > Len(s)
    THEN IF lit = <<>> THEN <<>>
         ELSE <<[lit |-> lit, field |-> NoField, spec |-> NoField]>>
    ELSE IF s[i] = "{"
    THEN LET j == IndexOf(s, "}", i + 1)
             inner == SubSeq(s, i + 1, j - 1)
             c == IndexOf(inner, ":", 1)
             name == IF c = 0 THEN inner ELSE SubSeq(inner, 1, c - 1)
             spec == IF c = 0 THEN <<>> ELSE SubSeq(inner, c + 1, Len(inner))
         IN  <<[lit |-> lit, field |-> name, spec |-> spec]>>
                 \o FormatterParseFrom(s, j + 1, <<>>)
    ELSE FormatterParseFrom(s, i + 1, Append(lit, s[i]))

FormatterParse(s) == FormatterParseFrom(s, 1, <<>>)

\* the templates of the model are well formed: every "{" has its "}"
RECURSIVE WellFormedFrom(_, _)
WellFormedFrom(s, i) ==
    IF i > Len(s) THEN TRUE
    ELSE IF s[i] = "}" THEN FALSE
    ELSE IF s[i] = "{"
    THEN LET j == IndexOf(s, "}", i + 1)
         IN  j # 0 /\ IndexOf(SubSeq(s, i + 1, j - 1), "{", 1) = 0
                  /\ WellFormedFrom(s, j + 1)
    ELSE WellFormedFrom(s, i + 1)

WellFormed(s) == WellFormedFrom(s, 1)

(***************************************************************************)
(* Field types.  A field type is a primitive of pyopenapi3.data_types or a *)
(* component class: [kind |-> "primitive", name |-> n] or                  *)
(* [kind |-> "component", category |-> c, name |-> n].                     *)
(***************************************************************************)
Prim(n) == [kind |-> "primitive", name |-> n]
Comp(c, n) == [kind |-> "component", category |-> c, name |-> n]

\* the primitive classes of the data-types module, by class name
PrimitiveNames ==
    {"Boolean", "String", "Byte", "Binary", "Date", "DateTime", "Password",
     "Email", "Number", "Float", "Double", "Integer", "Int32", "Int64"}

\* a lookup that lets every name through as String
get_field_from_name_lenient(name) ==
    IF Len(name) = 1 /\ name[1] \in PrimitiveNames
    THEN Some(Prim(name[1]))
    ELSE Some(Prim("String"))

\* _get_field_from_name: getattr on the module of field classes; <<>> stands
\* for the AttributeError of a name the module does not define
get_field_from_name(name) ==
    IF Len(name) = 1 /\ name[1] \in PrimitiveNames
    THEN Some(Prim(name[1]))
    ELSE None

\* the DTSchema class that _ObjectToDTSchema gives a primitive, as the
\* (type, format) constants of that class
DTSchemaOf(n) ==
    CASE n = "String"   -> [type |-> "string",  format |-> None]
      [] n = "Byte"     -> [type |-> "string",  format |-> Some("byte")]
      [] n = "Binary"   -> [type |-> "string",  format |-> Some("binary")]
      [] n = "Date"     -> [type |-> "string",  format |-> Some("data")]
      [] n = "DateTime" -> [type |-> "string",  format |-> Some("date-time")]
      [] n = "Password" -> [type |-> "string",  format |-> Some("password")]
      [] n = "Email"    -> [type |-> "string",  format |-> Some("email")]
      [] n = "Number"   -> [type |-> "number",  format |-> None]
      [] n = "Float"    -> [type |-> "number",  format |-> Some("float")]
      [] n = "Double"   -> [type |-> "number",  format |-> Some("double")]
      [] n = "Integer"  -> [type |-> "integer", format |-> None]
      [] n = "Int32"    -> [type |-> "integer", format |-> Some("int32")]
      [] n = "Int64"    -> [type |-> "integer", format |-> Some("int64")]
      [] n = "Boolean"  -> [type |-> "boolean", format |-> None]

\* ReferenceObject for a component: "#/components/<category>/<name>"
create_reference(category, name) ==
    [ref |-> <<"#/components/", category, "/", name>>]

\* create_schema of a field type: a primitive gives its DTSchema, a
\* component gives a reference and is never compiled inline
create_schema(t) ==
    IF t.kind = "primitive"
    THEN DTSchemaOf(t.name)
    ELSE create_reference(t.category, t.name)

\* build_mediatype_schema_from_content: None stays None; a list of
\* (media type, field type) gives a dict of media type -> MediaTypeObject
build_mediatype_schema_from_content(content) ==
    IF content = None THEN None
    ELSE Some([i \in DOMAIN content[1] |->
                 <<content[1][i][1], [schema |-> create_schema(content[1][i][2])]>>])

(***************************************************************************)
(* Parameters.                                                             *)
(***************************************************************************)
allowable_in_fields == {"path", "query", "header", "cookie"}

\* ParameterObject.validate_serialization: TRUE when the root validator
\* raises; it sees the keyword arguments as they were passed
validate_serialization_raises(has_schema, has_content) ==
    LET neither == ~ (has_content \/ has_schema)
        both == has_content /\ has_schema
    IN  both \/ neither

\* ParameterObject(in_field=..., **kwargs): <<>> when validation raises
ParameterObject(in_field, kw) ==
    IF \/ validate_serialization_raises(kw.schema # None, kw.content # None)
       \/ kw.name = None
    THEN None
    ELSE Some([name |-> kw.name[1], in |-> in_field, required |-> kw.required,
               schema |-> kw.schema, content |-> kw.content])

\* ParamBuilder.build_param.  kw = [name, schema, content, required], each
\* an optional; before the call schema is a field type and content a list
\* of (media type, field type).  <<>> when the call raises, else the
\* ParameterObject, or the reference when schema is a component class.
build_param(in_field, kw) ==
    IF kw.schema # None
    THEN IF kw.schema[1].kind = "component"
         THEN Some(create_schema(kw.schema[1]))
         ELSE ParameterObject(in_field,
                  [kw EXCEPT !.schema = Some(create_schema(kw.schema[1]))])
    ELSE IF kw.content # None
    THEN ParameterObject(in_field,
             [kw EXCEPT !.content = build_mediatype_schema_from_content(kw.content)])
    ELSE ParameterObject(in_field, kw)

\* ParamBuilder.build_param_from_cls: in_field is the class's attribute
build_param_from_cls(in_field, kw) ==
    IF in_field = None THEN None
    ELSE IF in_field[1] \notin allowable_in_fields THEN None
    ELSE build_param(in_field[1], kw)

(***************************************************************************)
(* Responses and operations.                                               *)
(***************************************************************************)
Digits == <<"0", "1", "2", "3", "4", "5", "6", "7", "8", "9">>

DigitValue(c) == (CHOOSE i \in DOMAIN Digits : Digits[i] = c) - 1

IsDigit(c) == c \in Range(Digits)

RECURSIVE DigitsValue(_, _)
DigitsValue(s, acc) ==
    IF s = <<>> THEN acc
    ELSE DigitsValue(Tail(s), acc * 10 + DigitValue(Head(s)))

\* int(key) of a str: <<>> for the ValueError, else <<the integer>>
PyInt(s) ==
    LET body == IF s # <<>> /\ Head(s) \in {"+", "-"} THEN Tail(s) ELSE s
    IN  IF body = <<>> \/ \E i \in DOMAIN body : ~ IsDigit(body[i])
        THEN None
        ELSE Some(IF Head(s) = "-" THEN 0 - DigitsValue(body, 0)
                  ELSE DigitsValue(body, 0))

\* OperationObject._status_codes = range(100, 600)
StatusCodesFrom == 100
StatusCodesTo == 600

DefaultKey == <<"default">>

validate_response_mapping_raises_above(keys) ==
    \E key \in keys \ {DefaultKey} :
        LET status_code == PyInt(key)
        IN  \/ status_code = None
            \/ ~ (status_code[1] >= StatusCodesFrom /\ status_code[1] <= StatusCodesTo)

\* OperationObject.validate_response_mapping on the keys of the dict:
\* TRUE when the validator raises
validate_response_mapping_raises(keys) ==
    \E key \in keys \ {DefaultKey} :
        LET status_code == PyInt(key)
        IN  \/ status_code = None
            \/ ~ (status_code[1] >= StatusCodesFrom /\ status_code[1] < StatusCodesTo)

\* OperationObject(**attrs): <<>> when validation raises
OperationObject(attrs) ==
    IF validate_response_mapping_raises(DictKeys(attrs.responses))
    THEN None
    ELSE Some(attrs)

(***************************************************************************)
(* Servers.                                                                *)
(***************************************************************************)
VarNames == {<<"user">>, <<"base">>, <<"extra">>}

\* server URLs: no placeholder; the two placeholders of the documented
\* example; literal text after the last placeholder; a repeated placeholder
Urls == {
    <<"https", ":", "//x.com/v1">>,
    <<"https", ":", "//", "{", "user", "}", ".x.com/", "{", "base", "}">>,
    <<"https", ":", "//", "{", "user", "}", ".x.com/v1">>,
    <<"https", ":", "//", "{", "user", "}", ".x.com/", "{", "user", "}">>
}

\* the `variables` attribute of a server class: absent, or a dict, of which
\* the model keeps the key set
VariablesInputs == {None} \cup {Some(S) : S \in SUBSET VarNames}

DefaultServer ==
    [url |-> <<"/">>, description |-> Some("Default server"), variables |-> None]

\* ServerObject.validate_url_with_vars: TRUE when the validator raises
validate_url_with_vars_raises(v, url) ==
    LET parsed == FormatterParse(url)
        args == [i \in DOMAIN parsed |-> parsed[i].field]
    IN  \/ ~ \A i \in DOMAIN args : args[i] \in v
        \/ Cardinality(v) > Len(args)

\* ServerObject(**kwargs): <<>> when validation raises, else <<the object>>.
\* pydantic runs a field's validator only when the field is supplied.
ServerObject(url, description, variables) ==
    IF variables # None /\ validate_url_with_vars_raises(variables[1], url)
    THEN None
    ELSE Some([url |-> url, description |-> description, variables |-> variables])

ServerBuilder_build_keeps_default(builds) == <<DefaultServer>> \o builds

\* ServerBuilder.build
ServerBuilder_build(builds) ==
    IF builds = <<>> THEN <<DefaultServer>> ELSE builds

\* ServerBuilder.__call__: the new _builds, or the old one when it raises
ServerBuilder_call(builds, obj) == Append(builds, obj)

ServerDecl(url, variables) ==
    /\ Len(server_builds) < MaxServers
    /\ LET so == ServerObject(url, Some("a server"), variables)
       IN  IF so = None
           THEN /\ UNCHANGED <<server_builds, declared_servers>>
                /\ last' = [op |-> "server", ok |-> FALSE, url |-> url,
                            variables |-> variables]
           ELSE /\ server_builds' = ServerBuilder_call(server_builds, so[1])
                /\ declared_servers' = Append(declared_servers, so[1])
                /\ last' = [op |-> "server", ok |-> TRUE, url |-> url,
                            variables |-> variables]
    /\ UNCHANGED <<info_build, paths_build, op_attrs, parameter_builds,
                   comp_build, doc, globalVars, classVars,
                   declared_params, first_doc, assemblies>>
    /\ UNCHANGED <<builderVars, schemaVars>>

\* reading ServerBuilder.build
ServerRead ==
    /\ last' = [op |-> "server.build", ok |-> TRUE,
                result |-> ServerBuilder_build(server_builds)]
    /\ UNCHANGED <<sessionVars, globalVars, classVars, ghostVars>>
    /\ UNCHANGED <<builderVars, schemaVars>>

(***************************************************************************)
(* Info.                                                                   *)
(***************************************************************************)
\* InfoObject(**attrs): title and version are required
InfoObject(title, version) ==
    IF title = None \/ version = None THEN None
    ELSE Some([title |-> title[1], version |-> version[1]])

\* InfoBuilder.__call__
InfoDecl(title, version) ==
    /\ LET io == InfoObject(title, version)
       IN  /\ info_build' = IF io = None THEN info_build ELSE io
           /\ last' = [op |-> "info", ok |-> io # None]
    /\ UNCHANGED <<server_builds, paths_build, op_attrs, parameter_builds,
                   comp_build, doc, globalVars, classVars, ghostVars>>
    /\ UNCHANGED <<builderVars, schemaVars>>

(***************************************************************************)
(* Path templates.  A template is given as tokens: a run of literal text   *)
(* [kind |-> "lit", text |-> x] or a placeholder {name:TypeName},          *)
(* [kind |-> "ph", text |-> name, type |-> TypeName].  The class attribute *)
(* `path` is the string the tokens spell.                                  *)
(***************************************************************************)
Lit(x) == [kind |-> "lit", text |-> x, type |-> ""]
Ph(n, t) == [kind |-> "ph", text |-> n, type |-> t]

RECURSIVE Render(_)
Render(tokens) ==
    IF tokens = <<>> THEN <<>>
    ELSE LET t == Head(tokens)
         IN  (IF t.kind = "lit" THEN <<t.text>>
              ELSE <<"{", t.text, ":", t.type, "}">>) \o Render(Tail(tokens))

\* the type of a placeholder: the built-in field-type table, then the
\* components that _allowed_types holds; <<>> when neither has the name
resolve_type_name(type_name, allowed) ==
    IF get_field_from_name(type_name) # None
    THEN get_field_from_name(type_name)
    ELSE IF Len(type_name) = 1 /\ type_name[1] \in allowed
    THEN Some(Comp("parameters", type_name[1]))
    ELSE None

\* parse_name_and_type_from_fmt_str, read to its end: the (name, type)
\* pairs in order, [ok |-> FALSE] when a type name makes it raise
RECURSIVE parse_pairs(_, _, _)
parse_pairs(parsed, i, allowed) ==
    IF i > Len(parsed) THEN [ok |-> TRUE, pairs |-> <<>>]
    ELSE IF parsed[i].field = NoField THEN parse_pairs(parsed, i + 1, allowed)
    ELSE LET t == resolve_type_name(parsed[i].spec, allowed)
             rest == parse_pairs(parsed, i + 1, allowed)
         IN  IF t = None \/ ~ rest.ok THEN [ok |-> FALSE, pairs |-> <<>>]
             ELSE [ok |-> TRUE,
                   pairs |-> <<<<parsed[i].field, t[1]>>>> \o rest.pairs]

parse_name_and_type_from_fmt_str(formatted_str, allowed) ==
    parse_pairs(FormatterParse(formatted_str), 1, allowed)

\* re.sub("{([^}]*)}", lambda mo: "{" + mo.group(1).split(':')[0] + "}", path)
RECURSIVE re_sub_from(_, _)
re_sub_from(s, i) ==
    IF i > Len(s) THEN <<>>
    ELSE IF s[i] = "{" /\ IndexOf(s, "}", i + 1) # 0
    THEN LET j == IndexOf(s, "}", i + 1)
             group == SubSeq(s, i + 1, j - 1)
             c == IndexOf(group, ":", 1)
             first == IF c = 0 THEN group ELSE SubSeq(group, 1, c - 1)
         IN  <<"{">> \o first \o <<"}">> \o re_sub_from(s, j + 1)
    ELSE <<s[i]>> \o re_sub_from(s, i + 1)

\* the path as written, type names kept
strip_type_names_keeps_types(path) == path

strip_type_names(path) == re_sub_from(path, 1)

(***************************************************************************)
(* The class body of a path group: methods are defined and decorated       *)
(* before the class itself is handed to PathsBuilder.                      *)
(***************************************************************************)
http_methods == {"get", "post", "put", "patch", "delete", "head", "options", "trace"}

NoBody == [kind |-> "None", content |-> <<>>]
EllipsisBody == [kind |-> "Ellipsis", content |-> <<>>]
Body(content) == [kind |-> "body", content |-> content]

\* def <name>(self) -> Op[request_body, responses]: a new function object
\* bound to the name in the class namespace
DefMethod(name, request_body, responses) ==
    /\ nextFn <= MaxFn
    /\ pending' = DictSet(pending, name,
                     [fn |-> nextFn, request_body |-> request_body,
                      responses |-> responses])
    /\ nextFn' = nextFn + 1
    /\ last' = [op |-> "def", ok |-> TRUE]
    /\ UNCHANGED <<sessionVars, globalVars, ghostVars>>
    /\ UNCHANGED <<builderVars, schemaVars>>

\* ParamBuilder.__call__(**kwargs)(_f) on the function bound to `method`;
\* an exception ends the class statement
ParamDecl(in_field, method, kw) ==
    /\ method \in DictKeys(pending)
    /\ LET fn == DictGet(pending, method).fn
           param == build_param(in_field, kw)
       IN  /\ Len(bus_parameters[fn]) < MaxParams
           /\ IF param = None
              THEN /\ pending' = <<>>
                   /\ UNCHANGED bus_parameters
              ELSE /\ bus_parameters' =
                          [bus_parameters EXCEPT ![fn] = <<param[1]>> \o @]
                   /\ UNCHANGED pending
           /\ last' = [op |-> "param", ok |-> param # None, kw |-> kw,
                       fn |-> fn, result |-> param]
    /\ UNCHANGED <<sessionVars, allowed_types, nextFn, ghostVars>>
    /\ UNCHANGED <<builderVars, schemaVars>>

\* OperationBuilder.__call__(**kwargs)(_f): the decorator form
OpDecl(method, tags) ==
    /\ method \in DictKeys(pending)
    /\ LET fn == DictGet(pending, method).fn
       IN  /\ op_attrs[fn] = None
           /\ op_attrs' = [op_attrs EXCEPT ![fn] =
                             Some([tags |-> Some(tags), responses |-> <<>>,
                                   request_body |-> None, parameters |-> None])]
    /\ last' = [op |-> "op", ok |-> TRUE]
    /\ UNCHANGED <<info_build, server_builds, paths_build, parameter_builds,
                   comp_build, doc, globalVars, classVars, ghostVars>>
    /\ UNCHANGED <<builderVars, schemaVars>>

(***************************************************************************)
(* Building a path group.                                                  *)
(***************************************************************************)
Reverse(s) == [i \in DOMAIN s |-> s[Len(s) + 1 - i]]

\* ResponseObject(**_response) of a response [status, content]
ResponseObject(response) ==
    [description |-> "a response",
     content |-> build_mediatype_schema_from_content(response.content)]

\* RequestBodyObject of a request body
RequestBodyObject(request_body) ==
    [content |-> build_mediatype_schema_from_content(Some(request_body.content))[1]]

\* builds['responses'][status] = resp for each entry popped off the bus
RECURSIVE responses_dict(_, _)
responses_dict(popped, d) ==
    IF popped = <<>> THEN d
    ELSE responses_dict(Tail(popped), DictSet(d, Head(popped)[1], Head(popped)[2]))

\* ResponseBuilder.__call__ puts each response on the left of the method's
\* deque; OperationBuilder.__call__ then pops the deque from the left
popped_responses(responses) ==
    Reverse([i \in DOMAIN responses |->
                <<responses[i].status, ResponseObject(responses[i])>>])

OperationBuilder_call_any_body(method_name, def, attrs_before, params) ==
    LET attrs ==
            [tags |-> IF attrs_before = None THEN None ELSE attrs_before[1].tags,
             responses |-> responses_dict(popped_responses(def.responses), <<>>),
             request_body |->
                 IF def.request_body.kind \in {"None", "Ellipsis"} THEN None
                 ELSE Some(RequestBodyObject(def.request_body)),
             parameters |-> IF params # <<>> THEN Some(params) ELSE None]
        op == OperationObject(attrs)
    IN  [raised |-> op = None, op |-> op, attrs |-> Some(attrs)]

\* OperationBuilder.__call__(method): [raised, op, attrs]; attrs is the new
\* _attrs[method], kept when OperationObject raises
OperationBuilder_call(method_name, def, attrs_before, params) ==
    IF method_name = "get" /\ def.request_body.kind \notin {"None", "Ellipsis"}
    THEN [raised |-> TRUE, op |-> None, attrs |-> attrs_before]
    ELSE LET builds ==
                 [responses |-> responses_dict(popped_responses(def.responses), <<>>),
                  request_body |->
                      IF def.request_body.kind \in {"None", "Ellipsis"} THEN None
                      ELSE Some(RequestBodyObject(def.request_body)),
                  parameters |-> IF params # <<>> THEN Some(params) ELSE None]
             attrs ==
                 [tags |-> IF attrs_before = None THEN None ELSE attrs_before[1].tags,
                  responses |-> builds.responses,
                  request_body |-> builds.request_body,
                  parameters |-> builds.parameters]
             op == OperationObject(attrs)
         IN  [raised |-> op = None, op |-> op, attrs |-> Some(attrs)]

\* the loop of PathItemBuilder.__call__ over the methods of the class:
\* [raised, attrs, op_attrs]
RECURSIVE operations_loop(_, _, _, _, _)
operations_loop(methods, i, attrs, oattrs, bus) ==
    IF i > Len(methods) THEN [raised |-> FALSE, attrs |-> attrs, op_attrs |-> oattrs]
    ELSE LET name == methods[i][1]
             def == methods[i][2]
             r == OperationBuilder_call(name, def, oattrs[def.fn], bus[def.fn])
             oattrs2 == [oattrs EXCEPT ![def.fn] = r.attrs]
         IN  IF r.raised
             THEN [raised |-> TRUE, attrs |-> attrs, op_attrs |-> oattrs2]
             ELSE operations_loop(methods, i + 1,
                                  DictSet(attrs, name, r.op[1]), oattrs2, bus)

\* the path parameters PathItemBuilder.__call__ builds from the pairs
path_parameters(pairs) ==
    [i \in DOMAIN pairs |->
        build_param("path", [name |-> Some(pairs[i][1]), schema |-> Some(pairs[i][2]),
                             content |-> None, required |-> Some(TRUE)])]

\* a path item of whatever the loop has built, the template not consulted
PathItemBuilder_call_keeps_partial(path, methods, oattrs, bus, allowed) ==
    LET ops == operations_loop(methods, 1, <<>>, oattrs, bus)
    IN  [raised |-> FALSE,
         item |-> Some([ops |-> ops.attrs, parameters |-> None]),
         op_attrs |-> ops.op_attrs]

\* PathItemBuilder.__call__(cls, methods): [raised, item, op_attrs]
PathItemBuilder_call(path, methods, oattrs, bus, allowed) ==
    LET ops == operations_loop(methods, 1, <<>>, oattrs, bus)
        parsed == parse_name_and_type_from_fmt_str(path, allowed)
        parameters == path_parameters(parsed.pairs)
    IN  IF ops.raised \/ ~ parsed.ok \/ \E i \in DOMAIN parameters : parameters[i] = None
        THEN [raised |-> TRUE, item |-> None, op_attrs |-> ops.op_attrs]
        ELSE [raised |-> FALSE,
              item |-> Some([ops |-> ops.attrs,
                             parameters |->
                                 IF parameters = <<>> THEN None
                                 ELSE Some([i \in DOMAIN parameters |-> parameters[i][1]])]),
              op_attrs |-> ops.op_attrs]

\* a paths map that keeps every path item it is given
PathsBuilder_store_appends(build, path, path_item) ==
    IF build = None THEN Some(<<<<path, path_item>>>>)
    ELSE Some(Append(build[1], <<path, path_item>>))

\* self.build[path] = path_item of PathsBuilder.__call__
PathsBuilder_store(build, path, path_item) ==
    IF build = None THEN Some(<<<<path, path_item>>>>)
    ELSE Some(DictSet(build[1], path, path_item))

\* PathsBuilder.__call__(cls): the class statement of a path group ends and
\* its decorator runs.  `limit` bounds the entries of the paths map.
PathDecl(tokens, limit) ==
    /\ IF paths_build = None THEN TRUE ELSE Len(paths_build[1]) < limit
    /\ LET path == Render(tokens)
           methods == SelectSeq(pending, LAMBDA m : m[1] \in http_methods)
           r == PathItemBuilder_call(path, methods, op_attrs, bus_parameters,
                                     allowed_types)
           key == strip_type_names(path)
       IN  /\ op_attrs' = r.op_attrs
           /\ paths_build' = IF r.raised THEN paths_build
                             ELSE PathsBuilder_store(paths_build, key, r.item[1])
           /\ last' = [op |-> "path", ok |-> ~ r.raised, tokens |-> tokens,
                       methods |-> methods, key |-> key, item |-> r.item,
                       allowed |-> allowed_types, before |-> paths_build]
    /\ pending' = <<>>
    /\ UNCHANGED <<info_build, server_builds, parameter_builds, comp_build, doc,
                   globalVars, nextFn, ghostVars>>
    /\ UNCHANGED <<builderVars, schemaVars>>

(***************************************************************************)
(* Components.                                                             *)
(***************************************************************************)
\* ComponentBuilder._parameters: with a class (the decorator form), or with
\* as_dict, here a dict of one parameter
ComponentBuilder_parameters(name, form, in_field, kw) ==
    /\ LET param == build_param_from_cls(in_field, kw)
       IN  /\ IF param = None
              THEN UNCHANGED <<parameter_builds, allowed_types, declared_params>>
              ELSE /\ parameter_builds' = DictSet(parameter_builds, name, param[1])
                   /\ allowed_types' = IF form = "class"
                                       THEN allowed_types \cup {name}
                                       ELSE allowed_types
                   /\ declared_params' = declared_params \cup {<<name, form>>}
           /\ last' = [op |-> "component.parameter", ok |-> param # None,
                       name |-> name, form |-> form]
    /\ UNCHANGED <<info_build, server_builds, paths_build, op_attrs, comp_build,
                   doc, bus_parameters, classVars, declared_servers, first_doc,
                   assemblies>>
    /\ UNCHANGED <<builderVars, schemaVars>>

\* ComponentsObject(...): every category is `builds or None`
ComponentsObject(parameters) ==
    [parameters |-> IF parameters = <<>> THEN None ELSE Some(parameters)]

\* ComponentBuilder.build
ComponentBuilder_build(memo, parameters) ==
    IF memo = None THEN Some(ComponentsObject(parameters)) ELSE memo

ComponentRead ==
    /\ comp_build' = ComponentBuilder_build(comp_build, parameter_builds)
    /\ last' = [op |-> "component.build", ok |-> TRUE, result |-> comp_build']
    /\ UNCHANGED <<info_build, server_builds, paths_build, op_attrs,
                   parameter_builds, doc, globalVars, classVars, ghostVars>>
    /\ UNCHANGED <<builderVars, schemaVars>>

(***************************************************************************)
(* The document.                                                           *)
(***************************************************************************)
\* OpenApiObject(...): info and paths are required
OpenApiObject(info, servers, paths, components) ==
    IF info = None \/ paths = None THEN None
    ELSE Some([openapi |-> "3.0.0", info |-> info[1], servers |-> servers,
               paths |-> paths[1], components |-> components])

\* a build that assembles the document on every call
OpenApiBuilder_build_recomputes(memo, info, servers, paths, comp_memo, parameters) ==
    LET components == ComponentBuilder_build(comp_memo, parameters)
        d == OpenApiObject(info, ServerBuilder_build(servers), paths, components[1])
    IN  [build |-> d, components |-> components, assembled |-> d # None]

\* OpenApiBuilder.build: [build, components, assembled]; the arguments of
\* the schema are read, ComponentBuilder.build among them, before it raises
OpenApiBuilder_build(memo, info, servers, paths, comp_memo, parameters) ==
    IF memo = None
    THEN LET components == ComponentBuilder_build(comp_memo, parameters)
             d == OpenApiObject(info, ServerBuilder_build(servers), paths,
                                components[1])
         IN  [build |-> d, components |-> components, assembled |-> d # None]
    ELSE [build |-> memo, components |-> comp_memo, assembled |-> FALSE]

Build ==
    /\ LET r == OpenApiBuilder_build(doc, info_build, server_builds, paths_build,
                                     comp_build, parameter_builds)
       IN  /\ doc' = r.build
           /\ comp_build' = r.components
           /\ last' = [op |-> "build", ok |-> r.build # None, result |-> r.build]
           /\ first_doc' = IF first_doc = None THEN r.build ELSE first_doc
           /\ assemblies' = IF r.assembled THEN assemblies + 1 ELSE assemblies
    /\ UNCHANGED <<info_build, server_builds, paths_build, op_attrs,
                   parameter_builds, globalVars, classVars, declared_servers,
                   declared_params>>
    /\ UNCHANGED <<builderVars, schemaVars>>

Init ==
    /\ info_build = None
    /\ server_builds = <<>>
    /\ paths_build = None
    /\ op_attrs = [f \in 1..MaxFn |-> None]
    /\ parameter_builds = <<>>
    /\ comp_build = None
    /\ doc = None
    /\ allowed_types = {}
    /\ bus_parameters = [f \in 1..MaxFn |-> <<>>]
    /\ pending = <<>>
    /\ nextFn = 1
    /\ last = [op |-> "init", ok |-> TRUE]
    /\ declared_servers = <<>>
    /\ declared_params = {}
    /\ first_doc = None
    /\ assemblies = 0
    /\ method_params = None
    /\ method_defn = <<>>
    /\ path_builds = None
    /\ comp_builds = <<>>
    /\ registered = <<>>
    /\ compiled = <<>>
    /\ fields_used = {}
    /\ schema_builds = <<>>
    /\ bus_schema_fields = {}
    /\ class_fields = <<>>
    /\ response_builds = <<>>
    /\ request_bodies_builds = <<>>
    /\ builder_info = None
    /\ builder_servers = <<>>

(***************************************************************************)
(* Inputs.                                                                 *)
(***************************************************************************)
RECURSIVE SeqsUpTo(_, _)
\* the sequences over S of length at most n
SeqsUpTo(S, n) ==
    IF n = 0 THEN {<<>>}
    ELSE LET shorter == SeqsUpTo(S, n - 1)
         IN  shorter \cup {Append(q, x) : q \in shorter, x \in S}

RECURSIVE ToDigits(_)
\* str(n) of a natural number, as characters
ToDigits(n) ==
    IF n < 10 THEN <<Digits[n + 1]>>
    ELSE Append(ToDigits(n \div 10), Digits[(n % 10) + 1])

\* the status of a response: an integer, or a word
StatusInputs ==
    {[int |-> Some(n), word |-> None] : n \in {99, 100, 200, 599, 600}}
        \cup {[int |-> None, word |-> Some(w)] : w \in {"default", "abc"}}

\* the key the response is put under
StatusKey(st) == IF st.int # None THEN ToDigits(st.int[1]) ELSE <<st.word[1]>>

\* a response of Op[...]: `of` remembers the status it was written from
ResponseOf(st) == [status |-> StatusKey(st), content |-> None, of |-> st]

MaxResponses == 2

ResponseLists ==
    {[i \in DOMAIN sts |-> ResponseOf(sts[i])] : sts \in SeqsUpTo(StatusInputs, MaxResponses)}

OkResponse == ResponseOf([int |-> Some(200), word |-> None])

JsonOf(t) == <<"application/json", t>>
XmlOf(t) == <<"application/xml", t>>

\* request bodies with a media-type content
BodyInputs ==
    {Body(<<JsonOf(Prim("String"))>>),
     Body(<<JsonOf(Comp("schemas", "Pet")), XmlOf(Prim("Int64"))>>)}

\* keyword arguments of a parameter: a name, and a schema, a content, both
\* or neither
KwInputs ==
    {[name |-> Some(<<"q">>), schema |-> sc, content |-> co, required |-> None] :
        sc \in {None, Some(Prim("String")), Some(Comp("schemas", "Pet"))},
        co \in {None, Some(<<JsonOf(Prim("Int64"))>>)}}

SchemaKw == [name |-> Some(<<"pet_id">>), schema |-> Some(Prim("String")),
             content |-> None, required |-> Some(TRUE)]

\* the tokens of the path templates
BuiltinTokens == {Lit("/pets/"), Ph("id", "Int64"), Ph("email", "Email")}
ComponentToken == Ph("pet_id", "PetID")
UnknownToken == Ph("id", "Nope")

Templates == SeqsUpTo(BuiltinTokens \cup {ComponentToken, UnknownToken}, MaxTokens)

PetsPath == <<Lit("/pets")>>

(***************************************************************************)
(* Specifications: the session under the declarations of one concern.      *)
(***************************************************************************)
DeclareServer == \E u \in Urls, v \in VariablesInputs : ServerDecl(u, v)

NextServer == DeclareServer \/ ServerRead

SpecServer == Init /\ [][NextServer]_vars

\* path templates and parameter components
DeclareTemplate == \E ts \in Templates : PathDecl(ts, 1)

DeclareParameterComponent ==
    \E form \in {"class", "as_dict"}, in_field \in {None, Some("path"), Some("notpath")} :
        ComponentBuilder_parameters("PetID", form, in_field, SchemaKw)

NextTemplate == DeclareTemplate \/ DeclareParameterComponent

SpecTemplate == Init /\ [][NextTemplate]_vars

\* the responses of one operation
DefineStatusMethod ==
    nextFn = 1 /\ \E rs \in ResponseLists : DefMethod("post", NoBody, rs)

DeclarePets == PathDecl(PetsPath, 1)

NextStatus == DefineStatusMethod \/ DeclarePets

SpecStatus == Init /\ [][NextStatus]_vars

\* request bodies on get and on other methods
DefineBodyMethod ==
    \E m \in {"get", "post"}, b \in {NoBody, EllipsisBody} \cup BodyInputs :
        DefMethod(m, b, <<OkResponse>>)

NextBody == DefineBodyMethod \/ DeclarePets

SpecBody == Init /\ [][NextBody]_vars

\* parameters of methods and parameter components
DefineMethod == \E m \in {"get", "post"} : DefMethod(m, NoBody, <<OkResponse>>)

DeclareParam ==
    \E m \in {"get", "post"}, kw \in KwInputs : ParamDecl("query", m, kw)

\* the first method of the session, and its parameters
DefineFirst == nextFn = 1 /\ DefMethod("get", NoBody, <<OkResponse>>)

DeclareFirstParam == \E kw \in KwInputs : ParamDecl("query", "get", kw)

DeclareKwComponent ==
    \E kw \in KwInputs :
        ComponentBuilder_parameters("PetID", "class", Some("query"), kw)

NextParam == DefineFirst \/ DeclareFirstParam \/ DeclareKwComponent \/ DeclarePets

SpecParam == Init /\ [][NextParam]_vars

\* the document
DeclareInfo ==
    \E title \in {None, Some("api")}, version \in {None, Some("1.0")} :
        InfoDecl(title, version)

DeclareOneServer == ServerDecl(<<"https", ":", "//x.com/v1">>, None)

DeclarePath == \E ts \in {PetsPath, <<Lit("/pets/"), Ph("id", "Int64")>>} :
                   PathDecl(ts, MaxPaths)

DeclareComponent ==
    ComponentBuilder_parameters("PetID", "class", Some("path"), SchemaKw)

NextDoc ==
    DeclareInfo \/ DeclareOneServer \/ DeclarePath \/ DeclareComponent \/ Build

SpecDoc == Init /\ [][NextDoc]_vars

\* the whole session: every kind of declaration, each with one input
DeclareQueryParam == ParamDecl("query", "get", SchemaKw)

DecorateGet == OpDecl("get", <<"pets">>)

Next ==
    \/ DeclareInfo
    \/ DeclareOneServer
    \/ ServerRead
    \/ DefineFirst
    \/ DeclareQueryParam
    \/ DecorateGet
    \/ DeclareComponent
    \/ DeclarePath
    \/ ComponentRead
    \/ Build

Spec == Init /\ [][Next]_vars

(***************************************************************************)
(* Properties.                                                             *)
(***************************************************************************)
\* C2: ServerBuilder.build is the one default server {url: "/",
\* description: "Default server"} when no server was declared, and else
\* exactly the declared servers, in declaration order.
C2_ServerList ==
    last.op = "server.build" =>
        last.result =
            IF declared_servers = <<>>
            THEN <<[url |-> <<"/">>, description |-> Some("Default server"),
                    variables |-> None]>>
            ELSE declared_servers

C2_Witness ==
    /\ last.op = "server.build"
    /\ Len(declared_servers) = 2
    /\ declared_servers[1].url # declared_servers[2].url
    /\ last.result = declared_servers

\* the {var} placeholders a URL is written with
Placeholders(url) == {<<url[i + 1]>> : i \in {j \in DOMAIN url : url[j] = "{"}}

KeySet(variables) == IF variables = None THEN {} ELSE variables[1]

\* C3: a server declaration succeeds if and only if the key set of its
\* variables (empty without a variables map) equals the set of placeholders
\* of its URL.
C3_Bijection ==
    last.op = "server" =>
        (last.ok <=> KeySet(last.variables) = Placeholders(last.url))

\* the responses of the one method of the last path group
LastResponses == last.methods[1][2].responses

StatusAllowed(st) ==
    \/ st.word = Some("default")
    \/ st.int # None /\ st.int[1] >= 100 /\ st.int[1] <= 599

HasBody(def) == def.request_body.kind = "body"

GetWithBody(methods) ==
    \E i \in DOMAIN methods : methods[i][1] = "get" /\ HasBody(methods[i][2])

MediaTypes(content) == [i \in DOMAIN content |-> content[i][1]]

\* C5: a path group whose get method carries a request body raises, whatever
\* the body holds, and leaves the paths map alone; the same body on another
\* method is accepted and is that operation's requestBody.
C5_GetNoBody ==
    last.op = "path" =>
        /\ GetWithBody(last.methods) => (~ last.ok /\ paths_build = last.before)
        /\ ~ GetWithBody(last.methods) =>
               /\ last.ok
               /\ \A i \in DOMAIN last.methods :
                      LET name == last.methods[i][1]
                          def == last.methods[i][2]
                          op == DictGet(last.item[1].ops, name)
                      IN  IF HasBody(def)
                          THEN /\ op.request_body # None
                               /\ MediaTypes(op.request_body[1].content)
                                      = MediaTypes(def.request_body.content)
                          ELSE op.request_body = None

C5_Witness ==
    /\ last.op = "path"
    /\ GetWithBody(last.methods)
    /\ \E i \in DOMAIN last.methods :
           last.methods[i][1] = "post" /\ HasBody(last.methods[i][2])
    /\ ~ last.ok

\* C6: a path group with a method of zero responses raises, and no operation
\* with an empty responses map is in the paths map.
C6_NonEmptyResponses ==
    /\ (last.op = "path" /\ \E i \in DOMAIN last.methods :
                               last.methods[i][2].responses = <<>>) => ~ last.ok
    /\ paths_build # None =>
           \A i \in DOMAIN paths_build[1] :
               \A j \in DOMAIN paths_build[1][i][2].ops :
                   paths_build[1][i][2].ops[j][2].responses # <<>>

\* C7: build_param yields a parameter if and only if exactly one of schema
\* and content is supplied; both and neither raise.
C7_ParameterShape ==
    last.op = "param" =>
        (last.ok <=> ((last.kw.schema # None) # (last.kw.content # None)))

\* the placeholders of a template, left to right
PlaceholdersOf(tokens) == SelectSeq(tokens, LAMBDA t : t.kind = "ph")

\* the template with bare {name} placeholders
RECURSIVE BareTemplate(_)
BareTemplate(tokens) ==
    IF tokens = <<>> THEN <<>>
    ELSE LET t == Head(tokens)
         IN  (IF t.kind = "lit" THEN <<t.text>> ELSE <<"{", t.text, "}">>)
                 \o BareTemplate(Tail(tokens))

\* the schema the document gives the built-in types of the templates
BuiltinSchema(type_name) ==
    IF type_name = "Int64" THEN [type |-> "integer", format |-> Some("int64")]
    ELSE [type |-> "string", format |-> Some("email")]

AllBuiltin(tokens) ==
    \A i \in DOMAIN tokens :
        tokens[i].kind = "ph" => tokens[i].type \in {"Int64", "Email"}

DeclaredNames == {d[1] : d \in declared_params}

C10_ResolvesIffDeclared ==
    (last.op = "path" /\ ComponentToken \in Range(last.tokens)
                      /\ UnknownToken \notin Range(last.tokens)) =>
        /\ last.ok <=> ComponentToken.type \in DeclaredNames
        /\ last.ok =>
               /\ last.key = BareTemplate(last.tokens)
               /\ \E i \in DOMAIN last.item[1].parameters[1] :
                      last.item[1].parameters[1][i] =
                          [ref |-> <<"#/components/", "parameters", "/", "PetID">>]

\* C1: every build that returns gives the document the first build returned,
\* whatever was declared in between, and the document is assembled once.
C1_Memoized ==
    /\ (last.op = "build" /\ last.ok) => last.result = first_doc
    /\ doc # None => doc = first_doc
    /\ assemblies <= 1

C1_Witness ==
    /\ last.op = "build"
    /\ last.ok
    /\ assemblies = 1
    /\ ServerBuilder_build(server_builds) # doc[1].servers
    /\ Len(paths_build[1]) > Len(doc[1].paths)
    /\ parameter_builds # <<>>
    /\ doc[1].components.parameters = None

(***************************************************************************)
(* A second session in the same process.                                   *)
(***************************************************************************)
\* OpenApiBuilder(): new builders with empty registries.  What the module
\* holds (_allowed_types, BuilderBus) is not part of the session and stays.
\* The records of declarations are those of the session at hand.
NewSession ==
    /\ info_build' = None
    /\ server_builds' = <<>>
    /\ paths_build' = None
    /\ op_attrs' = [f \in 1..MaxFn |-> None]
    /\ parameter_builds' = <<>>
    /\ comp_build' = None
    /\ doc' = None
    /\ declared_servers' = <<>>
    /\ declared_params' = {}
    /\ first_doc' = None
    /\ assemblies' = 0
    /\ fields_used' = {}
    /\ schema_builds' = <<>>
    /\ response_builds' = <<>>
    /\ request_bodies_builds' = <<>>
    /\ last' = [op |-> "session", ok |-> TRUE]
    /\ UNCHANGED <<globalVars, classVars, builderVars, bus_schema_fields,
                   class_fields>>

NextSession == DeclareTemplate \/ DeclareParameterComponent \/ NewSession

SpecSession == Init /\ [][NextSession]_vars

\* C11: what a session resolves as a path-template type is what that session
\* declared: a template typed with a parameter component the session did not
\* declare raises, whatever an earlier session of the process declared.
C11_SessionIsolation ==
    /\ allowed_types \subseteq DeclaredNames
    /\ (last.op = "path" /\ ComponentToken \in Range(last.tokens)
                         /\ declared_params = {}) => ~ last.ok

(***************************************************************************)
(* The schema compiler of utils.py, over the field classes of objects.py.  *)
(* builders.py calls create_schema with the signature of a later revision  *)
(* (above); the functions here are the ones utils.py defines.              *)
(***************************************************************************)
\* issubclass(cls, base) among the primitive classes of objects.py
Subclasses(base) ==
    CASE base = "String"  -> {"String", "Byte", "Date", "Binary", "DateTime",
                              "Password", "Email"}
      [] base = "Number"  -> {"Number", "Float", "Double"}
      [] base = "Integer" -> {"Integer", "Int32", "Int64"}
      [] base = "Boolean" -> {"Boolean"}

\* cls.__name__.lower()
Lower(n) ==
    CASE n = "Byte" -> "byte"         [] n = "Date" -> "date"
      [] n = "Binary" -> "binary"     [] n = "DateTime" -> "datetime"
      [] n = "Password" -> "password" [] n = "Email" -> "email"
      [] n = "Float" -> "float"       [] n = "Double" -> "double"
      [] n = "Int32" -> "int32"       [] n = "Int64" -> "int64"
      [] n = "String" -> "string"     [] n = "Number" -> "number"
      [] n = "Integer" -> "integer"   [] n = "Boolean" -> "boolean"

parse_strings(s) ==
    IF s = "String" THEN [type |-> "string", format |-> None]
    ELSE [type |-> "string", format |-> Some(Lower(s))]

parse_numbers(n) ==
    IF n = "Number" THEN Some([type |-> "number", format |-> None])
    ELSE IF n = "Integer" THEN Some([type |-> "integer", format |-> None])
    ELSE IF n \in Subclasses("Number") /\ n \notin Subclasses("Integer")
    THEN Some([type |-> "number", format |-> Some(Lower(n))])
    ELSE IF n \in Subclasses("Integer")
    THEN Some([type |-> "integer", format |-> Some(Lower(n))])
    ELSE None

\* parse_attr: <<>> when it raises "Attr for ... not defined."
parse_attr(o) ==
    IF o \in Subclasses("Number") THEN parse_numbers(o)
    ELSE IF o \in Subclasses("String") THEN Some(parse_strings(o))
    ELSE IF o = "Boolean" THEN Some([type |-> "boolean", format |-> None])
    ELSE None

\* convert_primitive_to_schema without description, read_only or example:
\* the schema of the keys parse_attr gives
convert_primitive_to_schema(primitive) == parse_attr(primitive)

\* create_reference(name) of utils.py
utils_create_reference(name) ==
    [ref |-> <<"#/components/", "schemas", "/", name>>]

\* convert_component_to_schema: the reference, or the component compiled in
\* place when is_reference is False
convert_component_to_schema(component, is_reference) ==
    IF is_reference THEN utils_create_reference(component.name)
    ELSE [inline |-> component.name]

\* Array[...], Array[T] and Array[T1, ..., Tn]: Array.__class_getitem__
Array_class_getitem(parameters) ==
    IF parameters.form = "Ellipsis"
    THEN [kind |-> "array", name |-> "AnyTypeArray", tvars |-> <<>>]
    ELSE IF parameters.form = "single"
    THEN [kind |-> "array", name |-> "SingleArray", tvars |-> parameters.args]
    ELSE [kind |-> "array", name |-> "MixedTypeArray", tvars |-> parameters.args]

is_arb_type(t) == t.name = "AnyTypeArray"

EmptySchema == [empty |-> TRUE]

RECURSIVE utils_create_schema(_, _)
RECURSIVE convert_array_to_schema(_)

\* create_schema(__type, is_reference=...) of utils.py; is_reference is <<>>
\* when the caller does not pass it.  <<>> when the call raises.
utils_create_schema(t, is_reference) ==
    IF t.kind = "primitive" THEN convert_primitive_to_schema(t.name)
    ELSE IF t.kind = "array" THEN convert_array_to_schema(t)
    ELSE IF is_reference = None THEN None
    ELSE Some(convert_component_to_schema(t, is_reference[1]))

\* convert_array_to_schema: one member, or the oneOf of the other arrays,
\* whose members are compiled with the keyword if_reference
convert_array_to_schema(array) ==
    LET tvars == array.tvars
    IN  IF Len(tvars) = 1
        THEN IF is_arb_type(tvars[1])
             THEN Some([type |-> "array", items |-> EmptySchema])
             ELSE LET member == utils_create_schema(tvars[1], Some(TRUE))
                  IN  IF member = None THEN None
                      ELSE Some([type |-> "array", items |-> member[1]])
        ELSE LET members == [i \in DOMAIN tvars |->
                                utils_create_schema(tvars[i], None)]
             IN  IF \E i \in DOMAIN members : members[i] = None THEN None
                 ELSE Some([type |-> "array",
                            items |-> [oneOf |-> [i \in DOMAIN members |->
                                                     members[i][1]]]])

\* the field types compiled: every primitive, a schema component, a
\* parameter component, and arrays over some of them
MaxMembers == 3
MaxCompiles == 2

BaseTypes ==
    {Prim(n) : n \in PrimitiveNames}
        \cup {Comp("schemas", "Pet"), Comp("parameters", "PetID")}

AnyArray == Array_class_getitem([form |-> "Ellipsis", args |-> <<>>])

SingleArrays ==
    {Array_class_getitem([form |-> "single", args |-> <<t>>]) :
        t \in BaseTypes \cup {AnyArray}}

MemberTypes ==
    {Prim("String"), Prim("Email"), Prim("Float"), Comp("schemas", "Pet"),
     Array_class_getitem([form |-> "single", args |-> <<Prim("String")>>])}

MixedArrays ==
    {Array_class_getitem([form |-> "tuple", args |-> ts]) :
        ts \in {q \in SeqsUpTo(MemberTypes, MaxMembers) : Len(q) >= 2}}

CompileInputs == BaseTypes \cup {AnyArray} \cup SingleArrays \cup MixedArrays

\* create_schema(t, is_reference=True), as the property, content and array
\* builders call it; the same type may be compiled again
Compile(t) ==
    /\ \/ last.op = "init"
       \/ last.op = "compile" /\ last.type = t /\ last.n < MaxCompiles
    /\ LET r == utils_create_schema(t, Some(TRUE))
       IN  last' = [op |-> "compile", ok |-> r # None, type |-> t, result |-> r,
                    first |-> IF last.op = "init" THEN r ELSE last.first,
                    n |-> IF last.op = "init" THEN 1 ELSE last.n + 1]
    /\ UNCHANGED <<sessionVars, globalVars, classVars, ghostVars>>
    /\ UNCHANGED <<builderVars, schemaVars>>

CompileType == \E t \in CompileInputs : Compile(t)

NextCompile == CompileType

SpecCompile == Init /\ [][NextCompile]_vars

\* the reference of a component, by the category it is registered under
ReferenceOf(t) == [ref |-> <<"#/components/", t.category, "/", t.name>>]

\* C12: a component used as a field type, alone or as the member of an
\* array, compiles to the reference "#/components/<category>/<name>" of the
\* category it is registered under, and to the same one every time.
C12_ComponentReference ==
    last.op = "compile" =>
        /\ last.type.kind = "component" =>
               /\ last.result = Some(ReferenceOf(last.type))
               /\ last.result = last.first
        /\ (last.type.kind = "array" /\ last.type.name = "SingleArray"
                /\ last.type.tvars[1].kind = "component") =>
               /\ last.ok
               /\ last.result[1].items = ReferenceOf(last.type.tvars[1])

\* C13: Array[...] compiles to an array schema whose items is the empty
\* schema {}.
C13_AnyArrayItems ==
    (last.op = "compile" /\ last.type = AnyArray) =>
        last.result = Some([type |-> "array", items |-> EmptySchema])

\* what a member of an array compiles to
CompiledMember(t) == utils_create_schema(t, Some(TRUE))

\* C14: an array of one type compiles to items = the compiled member, an
\* array of the members m1..mn to items = {oneOf: [the compiled m1, ...,
\* the compiled mn]} in that order, a component member being its reference;
\* the compilation does not raise.
C14_ArrayItems ==
    (last.op = "compile" /\ last.type.kind = "array") =>
        LET tvars == last.type.tvars
        IN  /\ last.type.name = "SingleArray" =>
                   /\ last.ok
                   /\ Some(last.result[1].items) = CompiledMember(tvars[1])
            /\ last.type.name = "MixedTypeArray" =>
                   /\ last.ok
                   /\ last.result[1].items =
                          [oneOf |-> [i \in DOMAIN tvars |->
                                         CompiledMember(tvars[i])[1]]]

\* C15: a primitive compiles to the (type, format) of its DTSchema class:
\* Int64 integer/int64, Int32 integer/int32, Email string/email, DateTime
\* string/date-time, and String, Integer, Number, Boolean their type without
\* a format.
C15_PrimitiveTable ==
    (last.op = "compile" /\ last.type.kind = "primitive") =>
        LET n == last.type.name
        IN  /\ last.result = Some(DTSchemaOf(n))
            /\ n = "Int64" => last.result = Some([type |-> "integer", format |-> Some("int64")])
            /\ n = "Int32" => last.result = Some([type |-> "integer", format |-> Some("int32")])
            /\ n = "Email" => last.result = Some([type |-> "string", format |-> Some("email")])
            /\ n = "DateTime" => last.result = Some([type |-> "string", format |-> Some("date-time")])
            /\ n = "String" => last.result = Some([type |-> "string", format |-> None])
            /\ n = "Integer" => last.result = Some([type |-> "integer", format |-> None])
            /\ n = "Number" => last.result = Some([type |-> "number", format |-> None])
            /\ n = "Boolean" => last.result = Some([type |-> "boolean", format |-> None])

\* C16: a name of the parameters category keeps the definition it was first
\* stored with: no declaration replaces a stored definition by another one.
C16_OneDefinition ==
    [][\A n \in DictKeys(parameter_builds) :
           /\ n \in DictKeys(parameter_builds')
           /\ DictGet(parameter_builds', n) = DictGet(parameter_builds, n)]_vars

(***************************************************************************)
(* The path builder of builder.py: parameters accumulate per method while  *)
(* the class body is read, and the decorated class is compiled to one      *)
(* entry of the path mapping.                                              *)
(***************************************************************************)
\* ParamBuilder.build_param of builder.py: the parameter with the schema
\* create_schema(field) gives; <<>> when create_schema raises
ParamBuilder_build_param(in_field, name, field, required) ==
    LET schema == utils_create_schema(field, None)
    IN  IF schema = None THEN None
        ELSE Some([name |-> name, in_field |-> in_field, required |-> required,
                   schema |-> schema[1]])

\* PathBuilder.update for a ParamBuilder publisher
PathBuilder_update(params, method, data) ==
    LET d == IF params = None THEN <<>> ELSE params[1]
    IN  IF method \notin DictKeys(d)
        THEN Some(<<<<method, <<data>>>>>>)
        ELSE Some(DictSet(d, method, Append(DictGet(d, method), data)))

\* PathBuilder.flush
PathBuilder_flush(params) == None

\* the path parameters of the template: build_param on every (name, type)
\* the parser yields; [ok |-> FALSE] when the parser or build_param raises
RECURSIVE builder_path_params(_, _)
builder_path_params(parsed, i) ==
    IF i > Len(parsed) THEN [ok |-> TRUE, params |-> <<>>]
    ELSE IF parsed[i].field = NoField THEN builder_path_params(parsed, i + 1)
    ELSE LET t == get_field_from_name(parsed[i].spec)
             p == IF t = None THEN None
                  ELSE ParamBuilder_build_param("path", parsed[i].field, t[1], TRUE)
             rest == builder_path_params(parsed, i + 1)
         IN  IF p = None \/ ~ rest.ok THEN [ok |-> FALSE, params |-> <<>>]
             ELSE [ok |-> TRUE, params |-> <<p[1]>> \o rest.params]

\* method_params = path_params; method_params += _method_params.get(name, [])
\* for every method in turn: the one list path_params, grown in place
RECURSIVE builder_method_params(_, _, _, _)
builder_method_params(methods, i, params, acc) ==
    IF i > Len(methods) THEN acc
    ELSE LET name == methods[i][1]
             own == IF params # None /\ name \in DictKeys(params[1])
                    THEN DictGet(params[1], name) ELSE <<>>
         IN  builder_method_params(methods, i + 1, params, acc \o own)

\* the list as the i-th method schema is given it
builder_method_params_at(methods, i, params, path_params) ==
    builder_method_params(SubSeq(methods, 1, i), 1, params, path_params)

\* the wrapper of PathBuilder.__call__ on a class.  `shares` tells whether
\* HttpMethodSchema keeps the list it is assigned (then every method schema
\* holds the list as it is after the last method) or a copy of it as it was
\* at the assignment; the class is not in the sources.  `step` is where the call
\* ends: "parse" (the template or a path parameter raises), "method" (an
\* HTTP method without a method schema), "mapping" (HttpMethodMappingSchema
\* does not validate), "paths" (PathMappingSchema does not validate), "done"
PathBuilder_call(path, methods, params, builds, shares, mapping_valid, paths_valid) ==
    LET pp == builder_path_params(FormatterParse(path), 1)
        key == IF pp.ok /\ pp.params # <<>> THEN strip_type_names(path) ELSE path
        http_mapping ==
            [i \in DOMAIN methods |->
                <<methods[i][1],
                  [parameters |->
                      builder_method_params_at(
                          methods, IF shares THEN Len(methods) ELSE i, params,
                          pp.params)]>>]
        paths == IF builds = None THEN <<>> ELSE builds[1]
    IN  IF ~ pp.ok
        THEN [step |-> "parse", params |-> params, builds |-> builds]
        ELSE IF \E i \in DOMAIN methods : ~ methods[i][2]
        THEN [step |-> "method", params |-> params, builds |-> builds]
        ELSE IF ~ mapping_valid
        THEN [step |-> "mapping", params |-> PathBuilder_flush(params),
              builds |-> builds]
        ELSE IF ~ paths_valid
        THEN [step |-> "paths", params |-> PathBuilder_flush(params),
              builds |-> builds]
        ELSE [step |-> "done", params |-> PathBuilder_flush(params),
              builds |-> Some(DictSet(paths, key, http_mapping))]

\* @open_bldr.path.query_param(name=..., field=...) on a method of the body
BuilderParamDecl(in_field, method, name, field) ==
    /\ IF method_params = None THEN TRUE
       ELSE \A k \in DictKeys(method_params[1]) :
                Len(DictGet(method_params[1], k)) < MaxParams
    /\ LET param == ParamBuilder_build_param(in_field, name, field, FALSE)
       IN  /\ method_params' = IF param = None THEN method_params
                               ELSE PathBuilder_update(method_params, method,
                                                       param[1])
           /\ last' = [op |-> "builder.param", ok |-> param # None,
                       method |-> method]
    /\ UNCHANGED <<sessionVars, globalVars, classVars, ghostVars, method_defn,
                   path_builds, comp_builds, registered, compiled, schemaVars>>
    /\ UNCHANGED frontVars

\* a method of the class body: `tagged` when @open_bldr.path(...) decorated
\* it and so attached a method schema
BuilderMethodDef(method, tagged) ==
    /\ method \notin DictKeys(method_defn)
    /\ method_defn' = DictSet(method_defn, method, tagged)
    /\ last' = [op |-> "builder.method", ok |-> TRUE, method |-> method]
    /\ UNCHANGED <<sessionVars, globalVars, classVars, ghostVars, method_params,
                   path_builds, comp_builds, registered, compiled, schemaVars>>
    /\ UNCHANGED frontVars

\* @open_bldr.path() on the class: the class statement ends with it
BuilderPathDecl(tokens, shares, mapping_valid, paths_valid) ==
    /\ IF path_builds = None THEN TRUE ELSE Len(path_builds[1]) < MaxPaths
    /\ LET path == Render(tokens)
           r == PathBuilder_call(path, method_defn, method_params, path_builds,
                                 shares, mapping_valid, paths_valid)
       IN  /\ method_params' = r.params
           /\ path_builds' = r.builds
           /\ last' = [op |-> "builder.path", ok |-> r.step = "done",
                       step |-> r.step, before |-> path_builds]
    /\ method_defn' = <<>>
    /\ UNCHANGED <<sessionVars, globalVars, classVars, ghostVars, comp_builds,
                   registered, compiled, schemaVars>>
    /\ UNCHANGED frontVars

BuilderFields == {Prim("String"), Comp("schemas", "Pet")}

BuilderTemplates ==
    {<<Lit("/pets")>>, <<Lit("/pets/"), Ph("email", "Email")>>,
     <<Lit("/pets/"), Ph("id", "Int64")>>, <<Lit("/pets/"), UnknownToken>>}

DeclareBuilderParam ==
    \E method \in {"get", "post"}, field \in BuilderFields :
        BuilderParamDecl("query", method, <<"limit">>, field)

DefineBuilderMethod ==
    \E method \in {"get", "post"}, tagged \in BOOLEAN :
        BuilderMethodDef(method, tagged)

DeclareBuilderPath ==
    \E tokens \in BuilderTemplates, shares \in BOOLEAN, mv \in BOOLEAN,
       pv \in BOOLEAN :
        (mv \/ pv) /\ BuilderPathDecl(tokens, shares, mv, pv)

NextBuilder == DeclareBuilderParam \/ DefineBuilderMethod \/ DeclareBuilderPath

SpecBuilder == Init /\ [][NextBuilder]_vars

\* C17: when a path-group declaration has finished, by returning or by
\* raising at any step, the per-method parameters of the accumulator are
\* empty.
C17_FlushAlways ==
    last.op = "builder.path" => method_params = None

(***************************************************************************)
(* Path groups that fail, declared after path groups that were stored.     *)
(***************************************************************************)
\* a get that is accepted, a get with a body and a status out of range, a
\* post with a status out of range
GroupMethods ==
    {<<"get", NoBody, ResponseOf([int |-> Some(200), word |-> None])>>,
     <<"get", Body(<<JsonOf(Prim("String"))>>),
       ResponseOf([int |-> Some(600), word |-> None])>>,
     <<"post", NoBody, ResponseOf([int |-> Some(600), word |-> None])>>}

\* the program declares its path groups with the builders of one module
UsesBuilders == last.op \in {"init", "def", "param", "path"}
UsesBuilder == last.op \in {"init", "builder.method", "builder.path"}

DefineGroupMethod ==
    /\ UsesBuilders
    /\ \E d \in GroupMethods : DefMethod(d[1], d[2], <<d[3]>>)

DeclareGroupParam ==
    /\ UsesBuilders
    /\ \E co \in {None, Some(<<JsonOf(Prim("Int64"))>>)} :
           ParamDecl("query", "get", [SchemaKw EXCEPT !.content = co])

DeclareGroup ==
    /\ UsesBuilders
    /\ \E ts \in {PetsPath, <<Lit("/pets/"), Ph("id", "Int64")>>,
                  <<Lit("/pets/"), UnknownToken>>} :
           PathDecl(ts, MaxPaths)

DefineBuilderGet ==
    UsesBuilder /\ \E tagged \in BOOLEAN : BuilderMethodDef("get", tagged)

DeclareBuilderGroup ==
    \E ts \in {<<Lit("/pets")>>, <<Lit("/pets/"), UnknownToken>>},
       mv \in BOOLEAN, pv \in BOOLEAN :
        UsesBuilder /\ (mv \/ pv) /\ BuilderPathDecl(ts, TRUE, mv, pv)

NextFrame ==
    \/ DefineGroupMethod
    \/ DeclareGroupParam
    \/ DeclareGroup
    \/ DefineBuilderGet
    \/ DeclareBuilderGroup

SpecFrame == Init /\ [][NextFrame]_vars

\* the causes a path group of builders.py raises for
BadStatus(methods) ==
    \E i \in DOMAIN methods :
        \E j \in DOMAIN methods[i][2].responses :
            ~ StatusAllowed(methods[i][2].responses[j].of)

UnknownType(tokens, allowed) ==
    \E i \in DOMAIN tokens :
        /\ tokens[i].kind = "ph"
        /\ tokens[i].type \notin PrimitiveNames
        /\ tokens[i].type \notin allowed

\* the declaration that just ended raised
FailedDeclaration ==
    \/ /\ last.op = "path"
       /\ \/ ~ last.ok
          \/ GetWithBody(last.methods)
          \/ BadStatus(last.methods)
          \/ UnknownType(last.tokens, last.allowed)
    \/ last.op \in {"param", "builder.path"} /\ ~ last.ok

\* C18: a declaration of a path group that raises (a get with a body, a
\* status key out of range, a template type that does not resolve, a
\* parameter that does not validate, a mapping that does not validate)
\* leaves the paths map, and the path mapping of builder.py, as they were.
C18_FailedGroupFrame ==
    [][FailedDeclaration' => /\ paths_build' = paths_build
                             /\ path_builds' = path_builds]_vars

C18_Witness ==
    /\ last.op = "path"
    /\ ~ last.ok
    /\ GetWithBody(last.methods)
    /\ BadStatus(last.methods)
    /\ UnknownType(last.tokens, last.allowed)
    /\ paths_build # None
    /\ Len(paths_build[1]) = 1
    /\ paths_build = last.before

(***************************************************************************)
(* The component builder of src/builder.py: a decorated class is compiled  *)
(* into _builds under its name; a decorated method whose return type is a  *)
(* component refers to it.                                                 *)
(***************************************************************************)
\* the keys of _builds: a class name, or a class object
NameKey(name) == <<"name", name>>
ClassKey(name) == <<"class", name>>

\* create_object(cls, descr=...): the definition compiled from the class
create_object(name) == [object |-> name]

\* how often `name` is counted in a dict of counts
CountOf(counts, name) ==
    IF name \in DictKeys(counts) THEN DictGet(counts, name) ELSE 0

\* the class branch of func_wrapper: _builds[_cls.__name__] = create_object
ComponentBuilder_call_class(builds, name) ==
    DictSet(builds, NameKey(name), create_object(name))

\* the method branch of func_wrapper for a return type that is a component:
\* the reference, and _builds[schema_type] = create_object(schema_type)
\* when schema_type.__name__ is not a key of _builds
ComponentBuilder_call_method(builds, name) ==
    [schema |-> create_reference("schemas", name),
     compiles |-> NameKey(name) \notin DictKeys(builds),
     builds |-> IF NameKey(name) \notin DictKeys(builds)
                THEN DictSet(builds, ClassKey(name), create_object(name))
                ELSE builds]

\* @component() on the class `name`
ComponentClassDecl(name) ==
    /\ CountOf(registered, name) < MaxCompiles
    /\ comp_builds' = ComponentBuilder_call_class(comp_builds, name)
    /\ registered' = DictSet(registered, name, CountOf(registered, name) + 1)
    /\ compiled' = DictSet(compiled, name, CountOf(compiled, name) + 1)
    /\ last' = [op |-> "component.class", ok |-> TRUE, name |-> name]
    /\ UNCHANGED <<sessionVars, globalVars, classVars, ghostVars, method_params,
                   method_defn, path_builds, schemaVars>>
    /\ UNCHANGED frontVars

\* @component() on a method of another class, annotated -> `name`
ComponentMethodDecl(name) ==
    /\ CountOf(compiled, name) <= MaxCompiles
    /\ LET r == ComponentBuilder_call_method(comp_builds, name)
       IN  /\ comp_builds' = r.builds
           /\ compiled' = IF r.compiles
                          THEN DictSet(compiled, name, CountOf(compiled, name) + 1)
                          ELSE compiled
           /\ last' = [op |-> "component.method", ok |-> TRUE, name |-> name,
                       schema |-> r.schema, before |-> comp_builds]
    /\ UNCHANGED <<sessionVars, globalVars, classVars, ghostVars, method_params,
                   method_defn, path_builds, registered, schemaVars>>
    /\ UNCHANGED frontVars

ComponentNames == {"Customer", "Store"}

RegisterComponent == \E name \in ComponentNames : ComponentClassDecl(name)

ReferComponent == \E name \in ComponentNames : ComponentMethodDecl(name)

NextComponents == RegisterComponent \/ ReferComponent

SpecComponents == Init /\ [][NextComponents]_vars

\* the definitions _builds holds for `name`
DefinitionsOf(name) == {k \in DictKeys(comp_builds) : k[2] = name}

\* C19: a component registered once has been compiled exactly once and has
\* one stored definition, however often other declarations refer to it, and
\* a reference to it compiles and stores nothing.
C19_CompiledOnce ==
    /\ \A name \in ComponentNames :
           CountOf(registered, name) = 1 =>
               /\ CountOf(compiled, name) = 1
               /\ DefinitionsOf(name) = {NameKey(name)}
    /\ (last.op = "component.method" /\ CountOf(registered, last.name) = 1) =>
           comp_builds = last.before

(***************************************************************************)
(* Schema components of builders.py: schema_field marks the methods of the *)
(* class body, and the decorated class is compiled from the marked         *)
(* methods.  A field is [fn, name, required, type]: the function object,   *)
(* its __name__, the `required` keyword (FALSE without it) and the return  *)
(* annotation (<<>> when the method has none).  Every function is marked   *)
(* once, so BuilderBus.schema_fields is the set of the functions whose     *)
(* deque still holds the keywords.                                         *)
(***************************************************************************)
\* ComponentBuilder._field: the keywords go on the bus, the function into
\* _fields_used
ComponentBuilder_field(bus, used, f) ==
    [bus |-> bus \cup {f.fn}, used |-> used \cup {f}]

\* the loop of ComponentBuilder.__call__ over _fields_used, in the order
\* the set is iterated: popleft raises IndexError on an empty deque,
\* get_type_hints(_f)['return'] raises KeyError without an annotation
RECURSIVE schema_fields_loop(_, _, _, _, _)
schema_fields_loop(order, i, bus, properties, required) ==
    IF i > Len(order)
    THEN [raised |-> FALSE, bus |-> bus, properties |-> properties,
          required |-> required]
    ELSE LET f == order[i]
             bus2 == bus \ {f.fn}
             required2 == IF f.required THEN Append(required, f.name)
                          ELSE required
         IN  IF f.fn \notin bus
             THEN [raised |-> TRUE, bus |-> bus, properties |-> properties,
                   required |-> required]
             ELSE IF f.type = None
             THEN [raised |-> TRUE, bus |-> bus2, properties |-> properties,
                   required |-> required2]
             ELSE schema_fields_loop(order, i + 1, bus2,
                      DictSet(properties, f.name, create_schema(f.type[1])),
                      required2)

\* ObjectsDTSchema(properties=properties, required=required or None)
ObjectsDTSchema(properties, required) ==
    [properties |-> properties,
     required |-> IF required = <<>> THEN None ELSE Some(required)]

\* ComponentBuilder.__call__(cls): [raised, bus, used, builds]
ComponentBuilder_call(name, order, bus, used, builds) ==
    LET r == schema_fields_loop(order, 1, bus, <<>>, <<>>)
    IN  IF r.raised
        THEN [raised |-> TRUE, bus |-> r.bus, used |-> used, builds |-> builds]
        ELSE [raised |-> FALSE, bus |-> r.bus, used |-> {},
              builds |-> DictSet(builds, name,
                                 ObjectsDTSchema(r.properties, r.required))]

\* the orders a set can be iterated in
Orders(S) ==
    {q \in SeqsUpTo(S, Cardinality(S)) : Len(q) = Cardinality(S) /\ Range(q) = S}

\* @component.schema_field(required=...) on a new method of the class body
SchemaFieldDecl(name, required, type) ==
    /\ nextFn <= MaxFn
    /\ \A i \in DOMAIN class_fields : class_fields[i].name # name
    /\ LET f == [fn |-> nextFn, name |-> name, required |-> required,
                 type |-> type]
           r == ComponentBuilder_field(bus_schema_fields, fields_used, f)
       IN  /\ bus_schema_fields' = r.bus
           /\ fields_used' = r.used
           /\ class_fields' = Append(class_fields, f)
    /\ nextFn' = nextFn + 1
    /\ last' = [op |-> "schema.field", ok |-> TRUE]
    /\ UNCHANGED <<sessionVars, globalVars, pending, ghostVars, builderVars,
                   schema_builds, response_builds, request_bodies_builds>>

\* @component.schema on the class: the class statement ends with it
SchemaDecl(name) ==
    /\ \E order \in Orders(fields_used) :
           LET r == ComponentBuilder_call(name, order, bus_schema_fields,
                                          fields_used, schema_builds)
           IN  /\ bus_schema_fields' = r.bus
               /\ fields_used' = r.used
               /\ schema_builds' = r.builds
               /\ last' = [op |-> "schema", ok |-> ~ r.raised, name |-> name,
                           fields |-> class_fields, order |-> order,
                           before |-> schema_builds]
    /\ class_fields' = <<>>
    /\ UNCHANGED <<sessionVars, globalVars, classVars, ghostVars, builderVars,
                   response_builds, request_bodies_builds>>

FieldNames == {"name", "animal_type"}

FieldTypes == {None, Some(Prim("String")), Some(Comp("schemas", "Owner"))}

DeclareSchemaField ==
    \E name \in FieldNames, required \in BOOLEAN, type \in FieldTypes :
        SchemaFieldDecl(<<name>>, required, type)

DeclareSchema == \E name \in {"Pet", "Owner"} : SchemaDecl(name)

NextSchema == DeclareSchemaField \/ DeclareSchema

SpecSchema == Init /\ [][NextSchema]_vars

\* the names of the fields, and of those marked required
NamesOf(fields) == {fields[i].name : i \in DOMAIN fields}
RequiredOf(fields) == {fields[i].name : i \in {j \in DOMAIN fields : fields[j].required}}

\* C20: the declaration of a component whose fields all carry a return
\* annotation stores a schema whose properties are exactly the fields of
\* its class body and whose required list is, as a set, exactly the fields
\* marked required (absent when there is none), whatever was declared
\* before it and whether or not an earlier declaration raised.
C20_OwnFields ==
    (last.op = "schema" /\ \A i \in DOMAIN last.fields : last.fields[i].type # None) =>
        /\ last.ok
        /\ last.name \in DictKeys(schema_builds)
        /\ LET schema == DictGet(schema_builds, last.name)
           IN  /\ DictKeys(schema.properties) = NamesOf(last.fields)
               /\ IF RequiredOf(last.fields) = {}
                  THEN schema.required = None
                  ELSE /\ schema.required # None
                       /\ Range(schema.required[1]) = RequiredOf(last.fields)

(***************************************************************************)
(* The categories of the component registry.  `self` is the registry as a  *)
(* record of its four dicts.                                               *)
(***************************************************************************)
Registries ==
    [schemas |-> schema_builds, parameters |-> parameter_builds,
     responses |-> response_builds, request_bodies |-> request_bodies_builds]

\* a registry with one namespace for all categories: a name some other
\* category holds is refused
ComponentBuilder_responses_one_namespace(self, name, attrs) ==
    IF attrs.description = None
       \/ name \in DictKeys(self.schemas) \cup DictKeys(self.parameters)
                       \cup DictKeys(self.request_bodies)
    THEN [raised |-> TRUE, self |-> self]
    ELSE [raised |-> FALSE,
          self |-> [self EXCEPT !.responses =
                       DictSet(@, name, [description |-> attrs.description[1],
                                         content |-> None])]]

\* ComponentBuilder._responses(cls): the ResponseObject of the attributes of
\* the class (description is required) is stored under the class name
ComponentBuilder_responses(self, name, attrs) ==
    IF attrs.description = None
    THEN [raised |-> TRUE, self |-> self]
    ELSE [raised |-> FALSE,
          self |-> [self EXCEPT !.responses =
                       DictSet(@, name,
                           [description |-> attrs.description[1],
                            content |-> build_mediatype_schema_from_content(
                                            attrs.content)])]]

\* ComponentBuilder._request_bodies(cls): request_body['content'] raises
\* KeyError when the class has no content
ComponentBuilder_request_bodies(self, name, attrs) ==
    IF attrs.content = None
    THEN [raised |-> TRUE, self |-> self]
    ELSE [raised |-> FALSE,
          self |-> [self EXCEPT !.request_bodies =
                       DictSet(@, name,
                           [description |-> attrs.description,
                            content |-> build_mediatype_schema_from_content(
                                            attrs.content)[1]])]]

\* @component.response on the class `name`
ResponseComponentDecl(name, attrs) ==
    /\ LET r == ComponentBuilder_responses(Registries, name, attrs)
       IN  /\ schema_builds' = r.self.schemas
           /\ parameter_builds' = r.self.parameters
           /\ response_builds' = r.self.responses
           /\ request_bodies_builds' = r.self.request_bodies
           /\ last' = [op |-> "component.response", ok |-> ~ r.raised,
                       name |-> name, attrs |-> attrs]
    /\ UNCHANGED <<info_build, server_builds, paths_build, op_attrs, comp_build,
                   doc, globalVars, classVars, ghostVars, builderVars,
                   fields_used, bus_schema_fields, class_fields>>

\* @component.request_body on the class `name`
RequestBodyComponentDecl(name, attrs) ==
    /\ LET r == ComponentBuilder_request_bodies(Registries, name, attrs)
       IN  /\ schema_builds' = r.self.schemas
           /\ parameter_builds' = r.self.parameters
           /\ response_builds' = r.self.responses
           /\ request_bodies_builds' = r.self.request_bodies
           /\ last' = [op |-> "component.request_body", ok |-> ~ r.raised,
                       name |-> name, attrs |-> attrs]
    /\ UNCHANGED <<info_build, server_builds, paths_build, op_attrs, comp_build,
                   doc, globalVars, classVars, ghostVars, builderVars,
                   fields_used, bus_schema_fields, class_fields>>

CategoryNames == {"Pet", "Owner"}

\* the attributes of a response class: with and without a description
ResponseAttrs ==
    {[description |-> d, content |-> None] : d \in {None, Some("a pet")}}

\* the attributes of a request-body class: with and without a content
RequestBodyAttrs ==
    {[description |-> None, content |-> c] :
        c \in {None, Some(<<JsonOf(Prim("String"))>>)}}

DeclareResponseComponent ==
    \E attrs \in ResponseAttrs : ResponseComponentDecl("Pet", attrs)

DeclareRequestBodyComponent ==
    \E attrs \in RequestBodyAttrs : RequestBodyComponentDecl("Pet", attrs)

DeclareCategoryParameter ==
    \E name \in CategoryNames :
        ComponentBuilder_parameters(name, "class", Some("query"), SchemaKw)

DeclareCategoryField ==
    SchemaFieldDecl(<<"name">>, TRUE, Some(Prim("String")))

DeclareCategorySchema == \E name \in CategoryNames : SchemaDecl(name)

NextCategories ==
    \/ DeclareResponseComponent
    \/ DeclareRequestBodyComponent
    \/ DeclareCategoryParameter
    \/ DeclareCategoryField
    \/ DeclareCategorySchema

SpecCategories == Init /\ [][NextCategories]_vars

\* C21: a declaration in one category with valid attributes succeeds and
\* stores its name, whether or not another category holds that name, and it
\* leaves the entries of the three other categories as they were.
C21_IndependentNamespaces ==
    [][/\ last'.op = "component.response" =>
              /\ UNCHANGED <<schema_builds, parameter_builds, request_bodies_builds>>
              /\ last'.attrs.description # None =>
                     last'.ok /\ last'.name \in DictKeys(response_builds')
       /\ last'.op = "component.request_body" =>
              /\ UNCHANGED <<schema_builds, parameter_builds, response_builds>>
              /\ last'.attrs.content # None =>
                     last'.ok /\ last'.name \in DictKeys(request_bodies_builds')
       /\ last'.op = "component.parameter" =>
              /\ UNCHANGED <<schema_builds, response_builds, request_bodies_builds>>
              /\ last'.ok /\ last'.name \in DictKeys(parameter_builds')
       /\ last'.op = "schema" =>
              /\ UNCHANGED <<parameter_builds, response_builds, request_bodies_builds>>
              /\ last'.ok /\ last'.name \in DictKeys(schema_builds')]_vars

C21_Witness ==
    /\ last.op = "component.response"
    /\ last.ok
    /\ last.name = "Pet"
    /\ "Pet" \in DictKeys(schema_builds)
    /\ "Pet" \in DictKeys(parameter_builds)
    /\ "Pet" \in DictKeys(request_bodies_builds)
    /\ "Pet" \in DictKeys(response_builds)
    /\ DictGet(schema_builds, "Pet").properties # <<>>

(***************************************************************************)
(* The info and server builders of builder.py.                             *)
(***************************************************************************)
\* InfoObjectBuilder.__call__: a ValidationError is printed, not raised:
\* [raised, builds]
InfoObjectBuilder_call(builds, title, version) ==
    LET info_object == InfoObject(title, version)
    IN  [raised |-> FALSE,
         builds |-> IF info_object = None THEN builds ELSE info_object]

\* ServerBuilder.__call__ of builder.py: a ValidationError is printed, not
\* raised: [raised, builds]
BuilderServerBuilder_call(builds, url, variables) ==
    LET server_object == ServerObject(url, Some("a server"), variables)
    IN  [raised |-> FALSE,
         builds |-> IF server_object = None THEN builds
                    ELSE Append(builds, server_object[1])]

\* @open_bldr.info on a class
BuilderInfoDecl(title, version) ==
    /\ LET r == InfoObjectBuilder_call(builder_info, title, version)
       IN  /\ builder_info' = r.builds
           /\ last' = [op |-> "builder.info", ok |-> ~ r.raised,
                       title |-> title, version |-> version]
    /\ UNCHANGED <<sessionVars, globalVars, classVars, ghostVars, method_params,
                   method_defn, path_builds, comp_builds, registered, compiled,
                   builder_servers, schemaVars>>

\* @open_bldr.server on a class
BuilderServerDecl(url, variables) ==
    /\ Len(builder_servers) < MaxServers
    /\ LET r == BuilderServerBuilder_call(builder_servers, url, variables)
       IN  /\ builder_servers' = r.builds
           /\ last' = [op |-> "builder.server", ok |-> ~ r.raised,
                       url |-> url, variables |-> variables]
    /\ UNCHANGED <<sessionVars, globalVars, classVars, ghostVars, method_params,
                   method_defn, path_builds, comp_builds, registered, compiled,
                   builder_info, schemaVars>>

DeclareBuilderInfo ==
    \E title \in {None, Some("api")}, version \in {None, Some("1.0")} :
        BuilderInfoDecl(title, version)

DeclareBuilderServer ==
    \E u \in Urls, v \in VariablesInputs : BuilderServerDecl(u, v)

NextFront == DeclareBuilderInfo \/ DeclareBuilderServer

SpecFront == Init /\ [][NextFront]_vars

\* C22: an info declaration without title or version, and a server
\* declaration whose variables do not match its url, raise to the caller of
\* the declaration.
C22_ErrorsRaised ==
    /\ (last.op = "builder.info" /\ (last.title = None \/ last.version = None))
           => ~ last.ok
    /\ (last.op = "builder.server" /\ last.variables # None
            /\ validate_url_with_vars_raises(last.variables[1], last.url))
           => ~ last.ok

\* the keys of a dict, in the order the dict lists them
DictKeySeq(d) == [i \in DOMAIN d |-> d[i][1]]

\* C23: the properties map of a stored component schema lists the fields of
\* its class in the order they were declared.
C23_DeclarationOrder ==
    (last.op = "schema" /\ last.ok) =>
        DictKeySeq(DictGet(schema_builds, last.name).properties)
            = [i \in DOMAIN last.fields |-> last.fields[i].name]

\* the accumulator as a dict: empty before the first parameter
AccumulatedParams(params) == IF params = None THEN <<>> ELSE params[1]

\* C24: a parameter declared for a method leaves the parameters accumulated
\* for every other method of the class body as they were, and is added at
\* the end of the list of its own method.
C24_NoOverwrite ==
    [][(last'.op = "builder.param" /\ last'.ok) =>
           LET before == AccumulatedParams(method_params)
               after == AccumulatedParams(method_params')
           IN  /\ \A m \in DictKeys(before) \ {last'.method} :
                      /\ m \in DictKeys(after)
                      /\ DictGet(after, m) = DictGet(before, m)
               /\ last'.method \in DictKeys(after)
               /\ Len(DictGet(after, last'.method)) =
                      IF last'.method \in DictKeys(before)
                      THEN Len(DictGet(before, last'.method)) + 1
                      ELSE 1]_vars

\* the parameters accumulated for method m
DeclaredFor(params, m) ==
    IF m \in DictKeys(AccumulatedParams(params))
    THEN DictGet(AccumulatedParams(params), m) ELSE <<>>

\* the entries of the path mapping that a step wrote
WrittenKeys(before, after) ==
    {k \in DictKeys(AccumulatedParams(after)) :
        \/ k \notin DictKeys(AccumulatedParams(before))
        \/ DictGet(AccumulatedParams(after), k)
               # DictGet(AccumulatedParams(before), k)}

\* C25: in the entry a path-group declaration writes, the parameters of
\* each method are the parameters declared for that method, in their order,
\* followed by the parameters of the path template, and nothing else.
C25_MethodParameters ==
    [][(last'.op = "builder.path" /\ last'.ok) =>
           \A k \in WrittenKeys(path_builds, path_builds') :
               LET mapping == DictGet(path_builds'[1], k)
               IN  \A j \in DOMAIN mapping :
                       LET own == DeclaredFor(method_params, mapping[j][1])
                           ps == mapping[j][2].parameters
                       IN  /\ Len(ps) >= Len(own)
                           /\ SubSeq(ps, 1, Len(own)) = own
                           /\ \A i \in (Len(own) + 1)..Len(ps) :
                                  ps[i].in_field = "path"]_vars

(***************************************************************************)
(* Path groups declared again under the key of an earlier one.             *)
(***************************************************************************)
SameKeyTemplates ==
    {PetsPath, <<Lit("/pets/"), Ph("id", "Int64")>>,
     <<Lit("/pets/"), Ph("id", "Email")>>}

DeclareSameKey == \E ts \in SameKeyTemplates : PathDecl(ts, MaxPaths + 1)

NextSameKey == DefineMethod \/ DeclareSameKey

SpecSameKey == Init /\ [][NextSameKey]_vars

\* the paths map as a dict: empty before the first path group
PathsOf(build) == IF build = None THEN <<>> ELSE build[1]

\* C26: after a path group is declared, the paths map has exactly one entry
\* for the key its template normalizes to, that entry is the path item of
\* this declaration, and every other entry is as it was.
C26_LastWriteWins ==
    [][(last'.op = "path" /\ last'.ok) =>
           LET before == PathsOf(paths_build)
               after == PathsOf(paths_build')
               key == BareTemplate(last'.tokens)
           IN  /\ Cardinality({i \in DOMAIN after : after[i][1] = key}) = 1
               /\ DictGet(after, key) = last'.item[1]
               /\ DictKeys(after) = DictKeys(before) \cup {key}
               /\ \A k \in DictKeys(before) \ {key} :
                      DictGet(after, k) = DictGet(before, k)]_vars

C26_Witness ==
    /\ last.op = "path"
    /\ last.ok
    /\ last.tokens = <<Lit("/pets/"), Ph("id", "Email")>>
    /\ last.before # None
    /\ last.key \in DictKeys(last.before[1])
    /\ DictGet(last.before[1], last.key).parameters[1][1].schema
           = Some(BuiltinSchema("Int64"))
    /\ DictGet(paths_build[1], last.key).parameters[1][1].schema
           = Some(BuiltinSchema("Email"))
    /\ Len(paths_build[1]) = 2

\* the status keys of the responses map of the one operation of the last
\* path group, in the order of the map
EmittedStatusKeys ==
    DictKeySeq(DictGet(paths_build[1], last.key).ops[1][2].responses)

\* the status keys of the responses list of Op[...], in the order written
DeclaredStatusKeys == [i \in DOMAIN LastResponses |-> LastResponses[i].status]

\* C27: the responses map of an emitted operation lists its status keys in
\* the order the responses were given in the method's declaration.
C27_ResponseOrder ==
    (/\ last.op = "path"
     /\ last.ok
     /\ Len(last.methods) = 1
     /\ \A i, j \in DOMAIN LastResponses :
            LastResponses[i].status = LastResponses[j].status => i = j)
        => EmittedStatusKeys = DeclaredStatusKeys

\* the parameter components of a materialized document
DocumentParameters(d) ==
    IF d.components.parameters = None THEN {}
    ELSE DictKeys(d.components.parameters[1])

\* C28: every component declared before the first materialize of the
\* document is in the components section of the materialized document,
\* whether or not ComponentBuilder.build was read before.
C28_ComponentsMaterialized ==
    [][(doc = None /\ doc' # None) =>
           DictKeys(parameter_builds) \subseteq DocumentParameters(doc'[1])]_vars

\* the method functions of the last path group
LastFunctions == {last.methods[i][2].fn : i \in DOMAIN last.methods}

\* C29: when a path-group declaration completes successfully, nothing that
\* was published on the bus for the group's methods is still pending; the
\* request_bodies, responses, operations and path_items topics are emptied
\* inside the declaration, so it is the parameters topic that is looked at.
C29_BusDrained ==
    (last.op = "path" /\ last.ok) =>
        \A fn \in LastFunctions : bus_parameters[fn] = <<>>

\* C30: the two primitive lookup tables agree: for every primitive field
\* type, the (type, format) parse_attr computes from the class name is the
\* (type, format) of the DTSchema class ObjectToDTSchema maps it to.
C30_TablesAgree ==
    (last.op = "compile" /\ last.type.kind = "primitive") =>
        parse_attr(last.type.name) = Some(DTSchemaOf(last.type.name))
====
